---- MODULE Spec2Model ----
(***************************************************************************)
(* Manifest-level partition pruning: ManifestEvaluatorBuilder,             *)
(* ManifestEvaluator::eval and the ManifestFilterVisitor handler set of    *)
(* crates/iceberg/src/expr/visitors/manifest_evaluator.rs.                 *)
(***************************************************************************)
EXTENDS Integers, Sequences, FiniteSets, TLC

VARIABLES builder, evaluator, manifest_file, result, calls, pc

\* eval called from several threads on one evaluator: the caller's manifests,
\* the frame of every call in progress, where each thread is, the last call
\* each thread completed, whether some call has returned an error, and the
\* number of calls made
VARIABLES manifests, frames, threads, done, failed, entered

shared == <<manifests, frames, threads, done, failed, entered>>

vars == <<builder, evaluator, manifest_file, result, calls, pc, shared>>

(***************************************************************************)
(* Bounds of the model.                                                    *)
(***************************************************************************)
\* numeric literals and numeric bounds range over 1..MaxNum
MaxNum == 3
\* strings (literals, prefixes, bounds) have at most MaxStrLen bytes
MaxStrLen == 2

(***************************************************************************)
(* Option<T>: None is the empty sequence, Some(x) the one-element one.     *)
(***************************************************************************)
None == <<>>

Some(x) == <<x>>

is_none(o) == o = <<>>

is_some(o) == o # <<>>

unwrap(o) == o[1]

Min(a, b) == IF a <= b THEN a ELSE b

(***************************************************************************)
(* crate::Result<bool>, plus the abort of a panic (an out-of-range index). *)
(***************************************************************************)
Ok(b) == [kind |-> "Ok", val |-> b, msg |-> ""]

Err(m) == [kind |-> "Err", val |-> FALSE, msg |-> m]

Panic == [kind |-> "panic", val |-> FALSE, msg |-> "index out of bounds"]

ROWS_MIGHT_MATCH == Ok(TRUE)

ROWS_CANNOT_MATCH == Ok(FALSE)

IN_PREDICATE_LIMIT == 200

NotUnsupported == "not operator is not supported in partition filter"

StartsWithNonString == "Cannot perform starts_with on non-string value"

NotStartsWithNonString == "Cannot perform not_starts_with on non-string value"

(***************************************************************************)
(* Datum: a typed literal.  num carries an int/float value, str the bytes  *)
(* of a string; the field the type does not use is 0 / <<>>.               *)
(***************************************************************************)
IntDatum(n) == [type |-> "int", num |-> n, str |-> <<>>]

FloatDatum(n) == [type |-> "float", num |-> n, str |-> <<>>]

StringDatum(s) == [type |-> "string", num |-> 0, str |-> s]

\* Type::is_floating_type
is_floating_type(t) == t \in {"float", "double"}

\* the byte alphabet of strings: "a" and "b"
Alphabet == {97, 98}

RECURSIVE StrsUpTo(_)
\* every byte string of at most n bytes, the empty one included
StrsUpTo(n) ==
    IF n = 0 THEN {<<>>}
    ELSE LET S == StrsUpTo(n - 1)
         IN  S \cup {Append(s, c) : s \in S, c \in Alphabet}

Strs == StrsUpTo(MaxStrLen)

\* the strings of at most one byte, the members of string-typed literal sets
ShortStrs == {<<>>} \cup {<<c>> : c \in Alphabet}

NumVals == 1..MaxNum

\* slice &b[..n]
Take(b, n) == SubSeq(b, 1, n)

\* lexicographic `<` of two byte slices (a proper prefix is the smaller)
BytesLt(a, b) ==
    \E i \in 1..(Min(Len(a), Len(b)) + 1) :
        /\ \A j \in 1..(i - 1) : a[j] = b[j]
        /\ IF i <= Len(a) /\ i <= Len(b) THEN a[i] < b[i]
           ELSE i > Len(a) /\ i <= Len(b)

BytesGt(a, b) == BytesLt(b, a)

\* PartialOrd of two Datums of one type
DatumLt(a, b) ==
    IF a.type = "string" THEN BytesLt(a.str, b.str) ELSE a.num < b.num

DatumLe(a, b) == DatumLt(a, b) \/ a = b

DatumGt(a, b) == DatumLt(b, a)

DatumGe(a, b) == DatumLe(b, a)

\* Datum::to_bytes: the single-value encoding of a bound
to_bytes(d) == IF d.type = "string" THEN d.str ELSE <<d.num>>

\* bytes_to_datum: decode a bound with the column's declared type
bytes_to_datum(bytes, t) ==
    IF t = "string" THEN StringDatum(bytes)
    ELSE [type |-> t, num |-> bytes[1], str |-> <<>>]

(***************************************************************************)
(* FieldSummary and BoundReference.                                        *)
(***************************************************************************)
FieldSummary(cn, nan, lb, ub) ==
    [contains_null |-> cn, contains_nan |-> nan, lower_bound |-> lb, upper_bound |-> ub]

BoundReference(p, t) == [pos |-> p, type |-> t]

\* Option<bool>
OptBool == {None, Some(TRUE), Some(FALSE)}

(***************************************************************************)
(* ManifestFilterVisitor: the handler set.  `partitions` is the visitor's  *)
(* &Vec<FieldSummary>; a reference's position indexes it from 0.           *)
(***************************************************************************)
\* &self.partitions[pos] aborts when pos is out of range
IndexPanics(partitions, reference) == reference.pos >= Len(partitions)

field_summary_for_reference(partitions, reference) == partitions[reference.pos + 1]

\* are_all_null without the floating-point exception
are_all_null_ignores_nan(field, type) ==
    field.contains_null /\ is_none(field.lower_bound)

are_all_null(field, type) ==
    LET all_null == field.contains_null /\ is_none(field.lower_bound)
    IN  IF all_null /\ is_floating_type(type)
        THEN IF is_some(field.contains_nan) THEN ~unwrap(field.contains_nan) ELSE FALSE
        ELSE all_null

\* datum_as_str without the check of the literal's type
datum_as_str_unchecked(bound, err_msg) == Ok(TRUE)

datum_as_str(bound, err_msg) ==
    IF bound.type = "string" THEN Ok(TRUE) ELSE Err(err_msg)

always_true == ROWS_MIGHT_MATCH

\* always_false answering with the other constant
always_false_might == ROWS_MIGHT_MATCH

always_false == ROWS_CANNOT_MATCH

\* and that answers with its left operand
and_keeps_left(lhs, rhs) == Ok(lhs)

and(lhs, rhs) == Ok(lhs /\ rhs)

or(lhs, rhs) == Ok(lhs \/ rhs)

\* not that inverts its operand instead of rejecting it
not_inverts(inner) == Ok(~inner)

not(inner) == Err(NotUnsupported)

\* is_null with a checked lookup: a recoverable error instead of the abort
is_null_checked(partitions, reference) ==
    IF IndexPanics(partitions, reference) THEN Err("position out of range")
    ELSE Ok(field_summary_for_reference(partitions, reference).contains_null)

\* is_null that also wants the lower bound absent
is_null_all_null(partitions, reference) ==
    IF IndexPanics(partitions, reference) THEN Panic
    ELSE LET field == field_summary_for_reference(partitions, reference)
         IN  Ok(field.contains_null /\ is_none(field.lower_bound))

is_null(partitions, reference) ==
    IF IndexPanics(partitions, reference) THEN Panic
    ELSE Ok(field_summary_for_reference(partitions, reference).contains_null)

not_null(partitions, reference) ==
    IF IndexPanics(partitions, reference) THEN Panic
    ELSE LET field == field_summary_for_reference(partitions, reference)
         IN  IF are_all_null(field, reference.type) THEN ROWS_CANNOT_MATCH
             ELSE ROWS_MIGHT_MATCH

\* is_nan that reads an unknown NaN status as "no NaN"
is_nan_unknown_is_false(partitions, reference) ==
    IF IndexPanics(partitions, reference) THEN Panic
    ELSE LET field == field_summary_for_reference(partitions, reference)
         IN  IF field.contains_nan # Some(TRUE) THEN ROWS_CANNOT_MATCH
             ELSE IF are_all_null(field, reference.type) THEN ROWS_CANNOT_MATCH
             ELSE ROWS_MIGHT_MATCH

is_nan(partitions, reference) ==
    IF IndexPanics(partitions, reference) THEN Panic
    ELSE LET field == field_summary_for_reference(partitions, reference)
         IN  IF is_some(field.contains_nan) /\ ~unwrap(field.contains_nan)
             THEN ROWS_CANNOT_MATCH
             ELSE IF are_all_null(field, reference.type) THEN ROWS_CANNOT_MATCH
             ELSE ROWS_MIGHT_MATCH

\* not_nan that forgets the nulls: NaN known and no lower bound prunes
not_nan_ignores_null(partitions, reference) ==
    IF IndexPanics(partitions, reference) THEN Panic
    ELSE LET field == field_summary_for_reference(partitions, reference)
         IN  IF /\ is_some(field.contains_nan)
                /\ unwrap(field.contains_nan)
                /\ is_none(field.lower_bound)
             THEN ROWS_CANNOT_MATCH
             ELSE ROWS_MIGHT_MATCH

not_nan(partitions, reference) ==
    IF IndexPanics(partitions, reference) THEN Panic
    ELSE LET field == field_summary_for_reference(partitions, reference)
         IN  IF /\ is_some(field.contains_nan)
                /\ unwrap(field.contains_nan)
                /\ ~field.contains_null
                /\ is_none(field.lower_bound)
             THEN ROWS_CANNOT_MATCH
             ELSE ROWS_MIGHT_MATCH

\* less_than that takes an absent lower bound for "no information"
less_than_absent_might(partitions, reference, datum) ==
    IF IndexPanics(partitions, reference) THEN Panic
    ELSE LET field == field_summary_for_reference(partitions, reference)
         IN  IF is_some(field.lower_bound)
             THEN LET bound == bytes_to_datum(unwrap(field.lower_bound), reference.type)
                  IN  IF DatumLe(datum, bound) THEN ROWS_CANNOT_MATCH
                      ELSE ROWS_MIGHT_MATCH
             ELSE ROWS_MIGHT_MATCH

\* less_than with the comparison of less_than_or_eq: keeps d = lower_bound
less_than_strict(partitions, reference, datum) ==
    IF IndexPanics(partitions, reference) THEN Panic
    ELSE LET field == field_summary_for_reference(partitions, reference)
         IN  IF is_some(field.lower_bound)
             THEN LET bound == bytes_to_datum(unwrap(field.lower_bound), reference.type)
                  IN  IF DatumLt(datum, bound) THEN ROWS_CANNOT_MATCH
                      ELSE ROWS_MIGHT_MATCH
             ELSE ROWS_CANNOT_MATCH

less_than(partitions, reference, datum) ==
    IF IndexPanics(partitions, reference) THEN Panic
    ELSE LET field == field_summary_for_reference(partitions, reference)
         IN  IF is_some(field.lower_bound)
             THEN LET bound == bytes_to_datum(unwrap(field.lower_bound), reference.type)
                  IN  IF DatumLe(datum, bound) THEN ROWS_CANNOT_MATCH
                      ELSE ROWS_MIGHT_MATCH
             ELSE ROWS_CANNOT_MATCH

\* less_than_or_eq with the comparison of less_than: also prunes d = lower_bound
less_than_or_eq_le(partitions, reference, datum) ==
    IF IndexPanics(partitions, reference) THEN Panic
    ELSE LET field == field_summary_for_reference(partitions, reference)
         IN  IF is_some(field.lower_bound)
             THEN LET bound == bytes_to_datum(unwrap(field.lower_bound), reference.type)
                  IN  IF DatumLe(datum, bound) THEN ROWS_CANNOT_MATCH
                      ELSE ROWS_MIGHT_MATCH
             ELSE ROWS_CANNOT_MATCH

less_than_or_eq(partitions, reference, datum) ==
    IF IndexPanics(partitions, reference) THEN Panic
    ELSE LET field == field_summary_for_reference(partitions, reference)
         IN  IF is_some(field.lower_bound)
             THEN LET bound == bytes_to_datum(unwrap(field.lower_bound), reference.type)
                  IN  IF DatumLt(datum, bound) THEN ROWS_CANNOT_MATCH
                      ELSE ROWS_MIGHT_MATCH
             ELSE ROWS_CANNOT_MATCH

\* greater_than with the comparison turned round
greater_than_below_upper(partitions, reference, datum) ==
    IF IndexPanics(partitions, reference) THEN Panic
    ELSE LET field == field_summary_for_reference(partitions, reference)
         IN  IF is_some(field.upper_bound)
             THEN LET bound == bytes_to_datum(unwrap(field.upper_bound), reference.type)
                  IN  IF DatumLe(datum, bound) THEN ROWS_CANNOT_MATCH
                      ELSE ROWS_MIGHT_MATCH
             ELSE ROWS_CANNOT_MATCH

greater_than(partitions, reference, datum) ==
    IF IndexPanics(partitions, reference) THEN Panic
    ELSE LET field == field_summary_for_reference(partitions, reference)
         IN  IF is_some(field.upper_bound)
             THEN LET bound == bytes_to_datum(unwrap(field.upper_bound), reference.type)
                  IN  IF DatumGe(datum, bound) THEN ROWS_CANNOT_MATCH
                      ELSE ROWS_MIGHT_MATCH
             ELSE ROWS_CANNOT_MATCH

\* greater_than_or_eq with the comparison of greater_than: prunes d = upper_bound
greater_than_or_eq_ge(partitions, reference, datum) ==
    IF IndexPanics(partitions, reference) THEN Panic
    ELSE LET field == field_summary_for_reference(partitions, reference)
         IN  IF is_some(field.upper_bound)
             THEN LET bound == bytes_to_datum(unwrap(field.upper_bound), reference.type)
                  IN  IF DatumGe(datum, bound) THEN ROWS_CANNOT_MATCH
                      ELSE ROWS_MIGHT_MATCH
             ELSE ROWS_CANNOT_MATCH

greater_than_or_eq(partitions, reference, datum) ==
    IF IndexPanics(partitions, reference) THEN Panic
    ELSE LET field == field_summary_for_reference(partitions, reference)
         IN  IF is_some(field.upper_bound)
             THEN LET bound == bytes_to_datum(unwrap(field.upper_bound), reference.type)
                  IN  IF DatumGt(datum, bound) THEN ROWS_CANNOT_MATCH
                      ELSE ROWS_MIGHT_MATCH
             ELSE ROWS_CANNOT_MATCH

\* eq that never compares against the upper bound
eq_ignores_upper(partitions, reference, datum) ==
    IF IndexPanics(partitions, reference) THEN Panic
    ELSE LET field == field_summary_for_reference(partitions, reference)
         IN  IF is_none(field.lower_bound) \/ is_none(field.upper_bound)
             THEN ROWS_CANNOT_MATCH
             ELSE LET lower_bound == bytes_to_datum(unwrap(field.lower_bound), reference.type)
                  IN  IF DatumGt(lower_bound, datum) THEN ROWS_CANNOT_MATCH
                      ELSE ROWS_MIGHT_MATCH

\* eq that keeps the manifest when a bound is absent
eq_absent_might(partitions, reference, datum) ==
    IF IndexPanics(partitions, reference) THEN Panic
    ELSE LET field == field_summary_for_reference(partitions, reference)
         IN  IF is_none(field.lower_bound) \/ is_none(field.upper_bound)
             THEN ROWS_MIGHT_MATCH
             ELSE LET lower_bound == bytes_to_datum(unwrap(field.lower_bound), reference.type)
                      upper_bound == bytes_to_datum(unwrap(field.upper_bound), reference.type)
                  IN  IF DatumGt(lower_bound, datum) THEN ROWS_CANNOT_MATCH
                      ELSE IF DatumLt(upper_bound, datum) THEN ROWS_CANNOT_MATCH
                      ELSE ROWS_MIGHT_MATCH

eq(partitions, reference, datum) ==
    IF IndexPanics(partitions, reference) THEN Panic
    ELSE LET field == field_summary_for_reference(partitions, reference)
         IN  IF is_none(field.lower_bound) \/ is_none(field.upper_bound)
             THEN ROWS_CANNOT_MATCH
             ELSE LET lower_bound == bytes_to_datum(unwrap(field.lower_bound), reference.type)
                      upper_bound == bytes_to_datum(unwrap(field.upper_bound), reference.type)
                  IN  IF DatumGt(lower_bound, datum) THEN ROWS_CANNOT_MATCH
                      ELSE IF DatumLt(upper_bound, datum) THEN ROWS_CANNOT_MATCH
                      ELSE ROWS_MIGHT_MATCH

\* not_eq that prunes a column whose bounds are both the literal
not_eq_reads_bounds(partitions, reference, datum) ==
    IF IndexPanics(partitions, reference) THEN Panic
    ELSE LET field == field_summary_for_reference(partitions, reference)
         IN  IF /\ ~field.contains_null
                /\ field.lower_bound = Some(to_bytes(datum))
                /\ field.upper_bound = Some(to_bytes(datum))
             THEN ROWS_CANNOT_MATCH
             ELSE ROWS_MIGHT_MATCH

\* the reference is never looked up
not_eq(partitions, reference, datum) == ROWS_MIGHT_MATCH

\* starts_with that truncates the prefix as well as the bound
starts_with_truncates_prefix(partitions, reference, datum) ==
    IF IndexPanics(partitions, reference) THEN Panic
    ELSE LET field == field_summary_for_reference(partitions, reference)
         IN  IF is_none(field.lower_bound) \/ is_none(field.upper_bound)
             THEN ROWS_CANNOT_MATCH
             ELSE IF datum_as_str(datum, StartsWithNonString).kind = "Err"
             THEN datum_as_str(datum, StartsWithNonString)
             ELSE LET prefix == datum.str
                      prefix_len == Len(prefix)
                      lower_bound == unwrap(field.lower_bound)
                      upper_bound == unwrap(field.upper_bound)
                      lower_len == Min(Len(lower_bound), prefix_len)
                      upper_len == Min(Len(upper_bound), prefix_len)
                  IN  IF BytesLt(Take(prefix, lower_len), Take(lower_bound, lower_len))
                      THEN ROWS_CANNOT_MATCH
                      ELSE IF BytesGt(Take(prefix, upper_len), Take(upper_bound, upper_len))
                      THEN ROWS_CANNOT_MATCH
                      ELSE ROWS_MIGHT_MATCH

starts_with(partitions, reference, datum) ==
    IF IndexPanics(partitions, reference) THEN Panic
    ELSE LET field == field_summary_for_reference(partitions, reference)
         IN  IF is_none(field.lower_bound) \/ is_none(field.upper_bound)
             THEN ROWS_CANNOT_MATCH
             ELSE IF datum_as_str(datum, StartsWithNonString).kind = "Err"
             THEN datum_as_str(datum, StartsWithNonString)
             ELSE LET prefix == datum.str
                      prefix_len == Len(prefix)
                      lower_bound == unwrap(field.lower_bound)
                      upper_bound == unwrap(field.upper_bound)
                  IN  IF BytesLt(prefix, Take(lower_bound, Min(Len(lower_bound), prefix_len)))
                      THEN ROWS_CANNOT_MATCH
                      ELSE IF BytesGt(prefix, Take(upper_bound, Min(Len(upper_bound), prefix_len)))
                      THEN ROWS_CANNOT_MATCH
                      ELSE ROWS_MIGHT_MATCH

\* not_starts_with that looks at the lower bound only
not_starts_with_lower_only(partitions, reference, datum) ==
    IF IndexPanics(partitions, reference) THEN Panic
    ELSE LET field == field_summary_for_reference(partitions, reference)
         IN  IF \/ field.contains_null
                \/ is_none(field.lower_bound)
                \/ is_none(field.upper_bound)
             THEN ROWS_MIGHT_MATCH
             ELSE IF datum_as_str(datum, NotStartsWithNonString).kind = "Err"
             THEN datum_as_str(datum, NotStartsWithNonString)
             ELSE LET prefix == datum.str
                      prefix_len == Len(prefix)
                      lower_bound == unwrap(field.lower_bound)
                  IN  IF prefix_len > Len(lower_bound) THEN ROWS_MIGHT_MATCH
                      ELSE IF prefix = Take(lower_bound, prefix_len) THEN ROWS_CANNOT_MATCH
                      ELSE ROWS_MIGHT_MATCH

not_starts_with(partitions, reference, datum) ==
    IF IndexPanics(partitions, reference) THEN Panic
    ELSE LET field == field_summary_for_reference(partitions, reference)
         IN  IF \/ field.contains_null
                \/ is_none(field.lower_bound)
                \/ is_none(field.upper_bound)
             THEN ROWS_MIGHT_MATCH
             ELSE IF datum_as_str(datum, NotStartsWithNonString).kind = "Err"
             THEN datum_as_str(datum, NotStartsWithNonString)
             ELSE LET prefix == datum.str
                      prefix_len == Len(prefix)
                      lower_bound == unwrap(field.lower_bound)
                      upper_bound == unwrap(field.upper_bound)
                  IN  IF prefix_len > Len(lower_bound) THEN ROWS_MIGHT_MATCH
                      ELSE IF prefix = Take(lower_bound, prefix_len)
                      THEN IF prefix_len > Len(upper_bound) THEN ROWS_MIGHT_MATCH
                           ELSE IF prefix = Take(upper_bound, prefix_len)
                           THEN ROWS_CANNOT_MATCH
                           ELSE ROWS_MIGHT_MATCH
                      ELSE ROWS_MIGHT_MATCH

\* in with any() where the code has all(): one member outside a bound prunes
in_any_outside(partitions, reference, literals) ==
    IF IndexPanics(partitions, reference) THEN Panic
    ELSE LET field == field_summary_for_reference(partitions, reference)
         IN  IF is_none(field.lower_bound) THEN ROWS_CANNOT_MATCH
             ELSE IF Cardinality(literals) > IN_PREDICATE_LIMIT THEN ROWS_MIGHT_MATCH
             ELSE LET lower_bound == bytes_to_datum(unwrap(field.lower_bound), reference.type)
                  IN  IF \E datum \in literals : DatumGt(lower_bound, datum)
                      THEN ROWS_CANNOT_MATCH
                      ELSE IF /\ is_some(field.upper_bound)
                              /\ \E datum \in literals :
                                    DatumLt(bytes_to_datum(unwrap(field.upper_bound),
                                                           reference.type), datum)
                      THEN ROWS_CANNOT_MATCH
                      ELSE ROWS_MIGHT_MATCH

\* in whose limit test is >= : a set of exactly IN_PREDICATE_LIMIT members
\* skips the bounds check
in_limit_inclusive(partitions, reference, literals) ==
    IF IndexPanics(partitions, reference) THEN Panic
    ELSE LET field == field_summary_for_reference(partitions, reference)
         IN  IF is_none(field.lower_bound) THEN ROWS_CANNOT_MATCH
             ELSE IF Cardinality(literals) >= IN_PREDICATE_LIMIT THEN ROWS_MIGHT_MATCH
             ELSE LET lower_bound == bytes_to_datum(unwrap(field.lower_bound), reference.type)
                  IN  IF \A datum \in literals : DatumGt(lower_bound, datum)
                      THEN ROWS_CANNOT_MATCH
                      ELSE IF /\ is_some(field.upper_bound)
                              /\ \A datum \in literals :
                                    DatumLt(bytes_to_datum(unwrap(field.upper_bound),
                                                           reference.type), datum)
                      THEN ROWS_CANNOT_MATCH
                      ELSE ROWS_MIGHT_MATCH

in(partitions, reference, literals) ==
    IF IndexPanics(partitions, reference) THEN Panic
    ELSE LET field == field_summary_for_reference(partitions, reference)
         IN  IF is_none(field.lower_bound) THEN ROWS_CANNOT_MATCH
             ELSE IF Cardinality(literals) > IN_PREDICATE_LIMIT THEN ROWS_MIGHT_MATCH
             ELSE LET lower_bound == bytes_to_datum(unwrap(field.lower_bound), reference.type)
                  IN  IF \A datum \in literals : DatumGt(lower_bound, datum)
                      THEN ROWS_CANNOT_MATCH
                      ELSE IF /\ is_some(field.upper_bound)
                              /\ \A datum \in literals :
                                    DatumLt(bytes_to_datum(unwrap(field.upper_bound),
                                                           reference.type), datum)
                      THEN ROWS_CANNOT_MATCH
                      ELSE ROWS_MIGHT_MATCH

\* the reference is never looked up
not_in(partitions, reference, literals) == ROWS_MIGHT_MATCH

(***************************************************************************)
(* BoundPredicate: a tagged tuple.                                         *)
(*   <<"AlwaysTrue">>  <<"AlwaysFalse">>                                   *)
(*   <<"And", l, r>>   <<"Or", l, r>>   <<"Not", inner>>                   *)
(*   <<"Unary", op, reference>>                                            *)
(*   <<"Binary", op, reference, datum>>                                    *)
(*   <<"Set", op, reference, literals>>                                    *)
(***************************************************************************)
AlwaysTrue == <<"AlwaysTrue">>

AlwaysFalse == <<"AlwaysFalse">>

And(l, r) == <<"And", l, r>>

Or(l, r) == <<"Or", l, r>>

Not(p) == <<"Not", p>>

Unary(op, reference) == <<"Unary", op, reference>>

Binary(op, reference, datum) == <<"Binary", op, reference, datum>>

SetPred(op, reference, literals) == <<"Set", op, reference, literals>>

UnaryOps == {"IsNull", "NotNull", "IsNan", "NotNan"}

CompareOps == {"LessThan", "LessThanOrEq", "GreaterThan", "GreaterThanOrEq", "Eq", "NotEq"}

PrefixOps == {"StartsWith", "NotStartsWith"}

SetOps == {"In", "NotIn"}

RECURSIVE HasNot(_)
\* does the tree hold a Not node
HasNot(p) ==
    CASE p[1] = "Not" -> TRUE
      [] p[1] \in {"And", "Or"} -> HasNot(p[2]) \/ HasNot(p[3])
      [] OTHER -> FALSE

(***************************************************************************)
(* PredicateOperator::negate and BoundPredicate::rewrite_not (negation     *)
(* elimination: De Morgan through And/Or, operator inversion at leaves).   *)
(***************************************************************************)
negate_op(op) ==
    CASE op = "IsNull" -> "NotNull"
      [] op = "NotNull" -> "IsNull"
      [] op = "IsNan" -> "NotNan"
      [] op = "NotNan" -> "IsNan"
      [] op = "LessThan" -> "GreaterThanOrEq"
      [] op = "LessThanOrEq" -> "GreaterThan"
      [] op = "GreaterThan" -> "LessThanOrEq"
      [] op = "GreaterThanOrEq" -> "LessThan"
      [] op = "Eq" -> "NotEq"
      [] op = "NotEq" -> "Eq"
      [] op = "StartsWith" -> "NotStartsWith"
      [] op = "NotStartsWith" -> "StartsWith"
      [] op = "In" -> "NotIn"
      [] op = "NotIn" -> "In"

RECURSIVE rewrite_not(_)
RECURSIVE negate(_)
\* the NOT-free negation of p
negate(p) ==
    CASE p[1] = "AlwaysTrue" -> AlwaysFalse
      [] p[1] = "AlwaysFalse" -> AlwaysTrue
      [] p[1] = "And" -> Or(negate(p[2]), negate(p[3]))
      [] p[1] = "Or" -> And(negate(p[2]), negate(p[3]))
      [] p[1] = "Not" -> rewrite_not(p[2])
      [] p[1] = "Unary" -> Unary(negate_op(p[2]), p[3])
      [] p[1] = "Binary" -> Binary(negate_op(p[2]), p[3], p[4])
      [] p[1] = "Set" -> SetPred(negate_op(p[2]), p[3], p[4])

rewrite_not(p) ==
    CASE p[1] = "And" -> And(rewrite_not(p[2]), rewrite_not(p[3]))
      [] p[1] = "Or" -> Or(rewrite_not(p[2]), rewrite_not(p[3]))
      [] p[1] = "Not" -> negate(p[2])
      [] OTHER -> p

(***************************************************************************)
(* bound_predicate_visitor::visit: operands first, then the combinator; a  *)
(* leaf goes to the handler of its operator.  The value is the handler's   *)
(* result with the handlers invoked, in order; an Err or a panic ends the  *)
(* traversal where it arises.                                              *)
(***************************************************************************)
Visited(r, c) == [res |-> r, calls |-> c]

visit_unary(partitions, op, reference) ==
    CASE op = "IsNull" -> Visited(is_null(partitions, reference), <<"is_null">>)
      [] op = "NotNull" -> Visited(not_null(partitions, reference), <<"not_null">>)
      [] op = "IsNan" -> Visited(is_nan(partitions, reference), <<"is_nan">>)
      [] op = "NotNan" -> Visited(not_nan(partitions, reference), <<"not_nan">>)

visit_binary(partitions, op, reference, datum) ==
    CASE op = "LessThan" ->
            Visited(less_than(partitions, reference, datum), <<"less_than">>)
      [] op = "LessThanOrEq" ->
            Visited(less_than_or_eq(partitions, reference, datum), <<"less_than_or_eq">>)
      [] op = "GreaterThan" ->
            Visited(greater_than(partitions, reference, datum), <<"greater_than">>)
      [] op = "GreaterThanOrEq" ->
            Visited(greater_than_or_eq(partitions, reference, datum), <<"greater_than_or_eq">>)
      [] op = "Eq" -> Visited(eq(partitions, reference, datum), <<"eq">>)
      [] op = "NotEq" -> Visited(not_eq(partitions, reference, datum), <<"not_eq">>)
      [] op = "StartsWith" ->
            Visited(starts_with(partitions, reference, datum), <<"starts_with">>)
      [] op = "NotStartsWith" ->
            Visited(not_starts_with(partitions, reference, datum), <<"not_starts_with">>)

visit_set(partitions, op, reference, literals) ==
    CASE op = "In" -> Visited(in(partitions, reference, literals), <<"in">>)
      [] op = "NotIn" -> Visited(not_in(partitions, reference, literals), <<"not_in">>)

RECURSIVE visit(_, _)
visit(partitions, p) ==
    CASE p[1] = "AlwaysTrue" -> Visited(always_true, <<"always_true">>)
      [] p[1] = "AlwaysFalse" -> Visited(always_false, <<"always_false">>)
      [] p[1] \in {"And", "Or"} ->
            LET left == visit(partitions, p[2])
            IN  IF left.res.kind # "Ok" THEN left
                ELSE LET right == visit(partitions, p[3])
                         seen == left.calls \o right.calls
                     IN  IF right.res.kind # "Ok" THEN Visited(right.res, seen)
                         ELSE IF p[1] = "And"
                         THEN Visited(and(left.res.val, right.res.val), Append(seen, "and"))
                         ELSE Visited(or(left.res.val, right.res.val), Append(seen, "or"))
      [] p[1] = "Not" ->
            LET inner == visit(partitions, p[2])
            IN  IF inner.res.kind # "Ok" THEN inner
                ELSE Visited(not(inner.res.val), Append(inner.calls, "not"))
      [] p[1] = "Unary" -> visit_unary(partitions, p[2], p[3])
      [] p[1] = "Binary" -> visit_binary(partitions, p[2], p[3], p[4])
      [] p[1] = "Set" -> visit_set(partitions, p[2], p[3], p[4])

(***************************************************************************)
(* ManifestEvaluatorBuilder and ManifestEvaluator.                         *)
(***************************************************************************)
\* ManifestEvaluatorBuilder::new
new(partition_filter) == [partition_filter |-> partition_filter, rewrite_not |-> FALSE]

\* ManifestEvaluatorBuilder::with_rewrite_not
with_rewrite_not(self, flag) == [self EXCEPT !.rewrite_not = flag]

\* build that ignores the flag
build_never_rewrites(self) == [partition_filter |-> self.partition_filter]

\* build with the flag's test inverted
build_rewrites_when_unset(self) ==
    [partition_filter |->
        IF ~self.rewrite_not THEN rewrite_not(self.partition_filter)
        ELSE self.partition_filter]

\* ManifestEvaluatorBuilder::build
build(self) ==
    [partition_filter |->
        IF self.rewrite_not THEN rewrite_not(self.partition_filter)
        ELSE self.partition_filter]

\* eval whose early return misses the empty list
eval_skips_only_absent(self, partitions) ==
    IF is_some(partitions)
    THEN visit(unwrap(partitions), self.partition_filter)
    ELSE Visited(Ok(TRUE), <<>>)

\* ManifestEvaluator::eval; `partitions` is manifest_file.partitions, an
\* Option<Vec<FieldSummary>>
eval(self, partitions) ==
    IF is_some(partitions) /\ unwrap(partitions) # <<>>
    THEN visit(unwrap(partitions), self.partition_filter)
    ELSE Visited(Ok(TRUE), <<>>)

(***************************************************************************)
(* The inputs: references, literals, predicates, field summaries and       *)
(* manifests.  Position 0 is a numeric partition column (bound as int or   *)
(* as float), position 1 a string column; position 2 is never present.     *)
(***************************************************************************)
IntRef == BoundReference(0, "int")

FloatRef == BoundReference(0, "float")

StrRef == BoundReference(1, "string")

FarRef == BoundReference(2, "string")

NumDatum(t, n) == [type |-> t, num |-> n, str |-> <<>>]

\* the literals a comparison on `reference` is bound with: the column's type
Lits(reference) ==
    IF reference.type = "string" THEN {StringDatum(x) : x \in Strs}
    ELSE {NumDatum(reference.type, n) : n \in NumVals}

\* the literals of a prefix operator: strings, and one literal that is no string
PrefixLits(reference) ==
    (IF reference.type = "string" THEN {StringDatum(x) : x \in Strs} ELSE {})
        \cup {IntDatum(1)}

\* the literal sets of In / NotIn
SetLits(reference) ==
    IF reference.type = "string"
    THEN {{StringDatum(x) : x \in X} : X \in SUBSET ShortStrs}
    ELSE {{NumDatum(reference.type, n) : n \in X} : X \in SUBSET NumVals}

LeavesOn(reference) ==
    {Unary(op, reference) : op \in UnaryOps}
        \cup {Binary(op, reference, d) : op \in CompareOps, d \in Lits(reference)}
        \cup {Binary(op, reference, d) : op \in PrefixOps, d \in PrefixLits(reference)}
        \cup {SetPred(op, reference, L) : op \in SetOps, L \in SetLits(reference)}

\* one leaf of every operator on the position no manifest has
FarLeaves ==
    {Unary(op, FarRef) : op \in UnaryOps}
        \cup {Binary(op, FarRef, StringDatum(<<97>>)) : op \in CompareOps \cup PrefixOps}
        \cup {SetPred(op, FarRef, {StringDatum(<<97>>)}) : op \in SetOps}

\* the set of n int literals lo, lo + 1, ...
Span(lo, n) == {IntDatum(k) : k \in lo..(lo + n - 1)}

\* In / NotIn at the limit and one past it: every member below every bound,
\* members from the least value up, every member above every bound
LimitLeaves ==
    {SetPred(op, IntRef, Span(lo, n)) :
        op \in SetOps,
        lo \in {0 - IN_PREDICATE_LIMIT, 1, MaxNum + 1},
        n \in {IN_PREDICATE_LIMIT, IN_PREDICATE_LIMIT + 1}}

Leaves ==
    LeavesOn(IntRef) \cup LeavesOn(FloatRef) \cup LeavesOn(StrRef) \cup FarLeaves
        \cup LimitLeaves

Consts == {AlwaysTrue, AlwaysFalse}

\* the operands of the two-level trees
CoreLeaves ==
    { Unary("IsNull", StrRef),
      Unary("NotNan", FloatRef),
      Binary("LessThan", IntRef, IntDatum(2)),
      Binary("GreaterThanOrEq", IntRef, IntDatum(2)),
      Binary("StartsWith", StrRef, IntDatum(1)),
      SetPred("In", IntRef, {IntDatum(1)}),
      Unary("IsNull", FarRef) }

Core == CoreLeaves \cup Consts

Pairs(S) == {And(a, b) : a \in S, b \in S} \cup {Or(a, b) : a \in S, b \in S}

\* the predicates of Spec: the NOT-free ones, every leaf and And/Or over Core
LeafPreds == Consts \cup Leaves \cup Pairs(Core)

\* the predicates of SpecTree: every leaf, and trees with Not at every level
TreePreds ==
    LET Negs == {Not(p) : p \in Core}
    IN  Pairs(Core \cup Negs)
            \cup Consts \cup Leaves
            \cup {Not(p) : p \in Leaves \cup Pairs(Core)}
            \cup {Not(Not(p)) : p \in Core \cup Pairs(Core)}

NumBounds == {None} \cup {Some(<<n>>) : n \in NumVals}

StrBounds == {None} \cup {Some(x) : x \in Strs}

NumSummaries ==
    {FieldSummary(cn, nan, lb, ub) :
        cn \in BOOLEAN, nan \in OptBool, lb \in NumBounds, ub \in NumBounds}

\* a string column records no NaN information, and the writer never records
\* a lower bound above the upper bound
StrSummaries ==
    {f \in {FieldSummary(cn, None, lb, ub) :
                cn \in BOOLEAN, lb \in StrBounds, ub \in StrBounds} :
        (is_some(f.lower_bound) /\ is_some(f.upper_bound))
            => ~BytesGt(unwrap(f.lower_bound), unwrap(f.upper_bound))}

\* the numeric summaries of the manifests that trees are evaluated on
NumTreeSummaries == {f \in NumSummaries : f.contains_nan = None}

\* the summaries a column keeps while the other column ranges over all of its own
NumPad ==
    { FieldSummary(FALSE, None, Some(<<1>>), Some(<<MaxNum>>)),
      FieldSummary(TRUE, Some(FALSE), None, None) }

StrPad ==
    { FieldSummary(TRUE, None, Some(<<97>>), Some(<<98>>)),
      FieldSummary(FALSE, None, Some(<<97>>), Some(<<97>>)) }

NumPad1 == FieldSummary(FALSE, None, Some(<<1>>), Some(<<MaxNum>>))

StrPad1 == FieldSummary(TRUE, None, Some(<<97>>), Some(<<98>>))

\* ManifestFile.partitions: absent, empty, one column, two columns
Manifests ==
    {None, Some(<<>>)}
        \cup {Some(<<n>>) : n \in NumPad}
        \cup {Some(<<NumPad1, x>>) : x \in StrSummaries}
        \cup {Some(<<n, StrPad1>>) : n \in NumSummaries}

TreeManifests ==
    {None, Some(<<>>)}
        \cup {Some(<<n>>) : n \in NumPad}
        \cup {Some(<<n, x>>) : n \in NumTreeSummaries, x \in StrPad}

(***************************************************************************)
(* The state machine: a builder is created for a filter, configured,       *)
(* built into an evaluator, and the evaluator is run on a manifest.        *)
(***************************************************************************)
InitWith(filters) ==
    /\ builder \in {new(f) : f \in filters}
    /\ evaluator = None
    /\ manifest_file = [partitions |-> None]
    /\ result = None
    /\ calls = <<>>
    /\ pc = "builder"
    /\ manifests = <<>>
    /\ frames = <<>>
    /\ threads = <<>>
    /\ done = <<>>
    /\ failed = FALSE
    /\ entered = 0

WithRewriteNot(flag) ==
    /\ pc = "builder"
    /\ builder' = with_rewrite_not(builder, flag)
    /\ UNCHANGED <<evaluator, manifest_file, result, calls, pc, shared>>

Build ==
    /\ pc = "builder"
    /\ evaluator' = Some(build(builder))
    /\ pc' = "built"
    /\ UNCHANGED <<builder, manifest_file, result, calls, shared>>

Eval(partitions) ==
    /\ pc = "built"
    /\ LET v == eval(unwrap(evaluator), partitions)
       IN  /\ result' = Some(v.res)
           /\ calls' = v.calls
    /\ manifest_file' = [partitions |-> partitions]
    /\ pc' = "evaluated"
    /\ UNCHANGED <<builder, evaluator, shared>>

Init == InitWith(LeafPreds)

Next ==
    \/ \E flag \in BOOLEAN : WithRewriteNot(flag)
    \/ Build
    \/ \E partitions \in Manifests : Eval(partitions)

Spec == Init /\ [][Next]_vars

InitTree == InitWith(TreePreds)

NextTree ==
    \/ \E flag \in BOOLEAN : WithRewriteNot(flag)
    \/ Build
    \/ \E partitions \in TreeManifests : Eval(partitions)

SpecTree == InitTree /\ [][NextTree]_vars

\* the manifests whose every field summary records both bounds
BoundedManifests ==
    {m \in Manifests :
        /\ is_some(m)
        /\ unwrap(m) # <<>>
        /\ \A i \in 1..Len(unwrap(m)) :
                is_some(unwrap(m)[i].lower_bound) /\ is_some(unwrap(m)[i].upper_bound)}

InitWiden == InitWith(LeafPreds)

NextWiden ==
    \/ \E flag \in BOOLEAN : WithRewriteNot(flag)
    \/ Build
    \/ \E partitions \in BoundedManifests : Eval(partitions)

SpecWiden == InitWiden /\ [][NextWiden]_vars

(***************************************************************************)
(* One evaluator shared by several threads.  A call of eval has a frame of *)
(* its own (the borrowed manifest_file and the visitor built from it); it  *)
(* borrows the evaluator as &self and the manifest as &ManifestFile.       *)
(***************************************************************************)
\* threads that call eval
MaxThreads == 2
\* calls of eval made in one run
MaxCalls == 3

Threads == 1..MaxThreads

\* the caller's manifests: no statistics; a numeric column all 1 beside a
\* string column with bounds; a numeric column all MaxNum beside an all-null
\* string column
CallerManifests ==
    << [partitions |-> None],
       [partitions |-> Some(<< FieldSummary(FALSE, None, Some(<<1>>), Some(<<1>>)),
                               FieldSummary(FALSE, None, Some(<<97>>), Some(<<98>>)) >>)],
       [partitions |-> Some(<< FieldSummary(FALSE, None, Some(<<MaxNum>>), Some(<<MaxNum>>)),
                               FieldSummary(TRUE, None, None, None) >>)] >>

\* the filters of the shared evaluator: verdicts that differ between the
\* manifests, the two recoverable errors, and an out-of-range position
SharedPreds ==
    { AlwaysFalse,
      Binary("LessThan", IntRef, IntDatum(2)),
      Not(Binary("LessThan", IntRef, IntDatum(2))),
      Binary("StartsWith", StrRef, IntDatum(1)),
      And(Unary("IsNull", StrRef), Binary("GreaterThanOrEq", IntRef, IntDatum(2))),
      Or(Not(Unary("IsNull", StrRef)), Binary("Eq", IntRef, IntDatum(1))),
      Unary("IsNull", FarRef) }

\* all calls share one frame: the visitor kept in a field of the evaluator
frame_shared(t) == 1

\* the frame of the call thread t makes: a call's arguments and locals are its own
frame(t) == t

\* a failed call replaces the stored predicate
after_eval_poisons(self, res) ==
    IF res.kind = "Err" THEN [partition_filter |-> AlwaysTrue] ELSE self

\* the evaluator after a call of eval(&self, ..) that returned res
after_eval(self, res) == self

InitShared ==
    /\ builder \in {new(f) : f \in SharedPreds}
    /\ evaluator = None
    /\ manifest_file = [partitions |-> None]
    /\ result = None
    /\ calls = <<>>
    /\ pc = "builder"
    /\ manifests = CallerManifests
    /\ frames = [t \in Threads |-> None]
    /\ threads = [t \in Threads |-> [at |-> "idle", m |-> 0, after_error |-> FALSE]]
    /\ done = [t \in Threads |-> None]
    /\ failed = FALSE
    /\ entered = 0

\* the threads inside a call
InCall == {t \in Threads : threads[t].at = "called"}

\* thread t calls eval(&manifests[m]) on the shared evaluator
EvalEnter(t, m) ==
    /\ pc = "built"
    /\ threads[t].at = "idle"
    /\ entered < MaxCalls
    /\ frames' = [frames EXCEPT ![frame(t)] = Some([manifest_file |-> manifests[m]])]
    /\ threads' = [threads EXCEPT ![t] = [at |-> "called", m |-> m, after_error |-> failed]]
    /\ entered' = entered + 1
    /\ UNCHANGED <<builder, evaluator, manifest_file, result, calls, pc, manifests, done, failed>>

\* the call of thread t runs to its end; a panic unwinds the thread
EvalReturn(t) ==
    /\ pc = "built"
    /\ threads[t].at = "called"
    /\ is_some(frames[frame(t)])
    /\ LET self == unwrap(evaluator)
           res == eval(self, unwrap(frames[frame(t)]).manifest_file.partitions).res
       IN  /\ done' = [done EXCEPT ![t] =
                        Some([m |-> threads[t].m,
                              res |-> res,
                              after_error |-> threads[t].after_error,
                              overlapped |-> InCall # {t}])]
           /\ failed' = (failed \/ res.kind = "Err")
           /\ evaluator' = Some(after_eval(self, res))
           /\ threads' = [threads EXCEPT ![t].at = IF res.kind = "panic" THEN "dead" ELSE "idle"]
    /\ frames' = [frames EXCEPT ![frame(t)] = None]
    /\ UNCHANGED <<builder, manifest_file, result, calls, pc, manifests, entered>>

NextShared ==
    \/ \E flag \in BOOLEAN : WithRewriteNot(flag)
    \/ Build
    \/ \E t \in Threads, m \in 1..Len(CallerManifests) : EvalEnter(t, m)
    \/ \E t \in Threads : EvalReturn(t)

SpecShared == InitShared /\ [][NextShared]_vars

(***************************************************************************)
(* Names for the parts of a state.                                         *)
(***************************************************************************)
\* the predicate the builder was given
Filter == builder.partition_filter

\* the predicate the evaluator stores
Stored == unwrap(evaluator).partition_filter

\* the statistics of the manifest eval was called with
Parts == manifest_file.partitions

NonEmptyStats == is_some(Parts) /\ unwrap(Parts) # <<>>

\* what eval returned
Res == unwrap(result)

Evaluated == pc = "evaluated"

IsLeaf(p) == p[1] \in {"Unary", "Binary", "Set"}

\* the reference of a leaf
RefOf(p) == p[3]

\* the field summary a leaf looks up, when its position is in range
FieldOf(p) == unwrap(Parts)[RefOf(p).pos + 1]

InRange(p) == RefOf(p).pos < Len(unwrap(Parts))

(***************************************************************************)
(* Rows and their exact summaries: what the statistics of a manifest       *)
(* stand for.  A cell is null, NaN (floating columns only) or a value.     *)
(***************************************************************************)
\* a column of at most MaxRows distinct cells is summarized
MaxRows == 4

NullCell == [kind |-> "null", num |-> 0, str |-> <<>>]

NanCell == [kind |-> "nan", num |-> 0, str |-> <<>>]

NumCell(n) == [kind |-> "val", num |-> n, str |-> <<>>]

StrCell(x) == [kind |-> "val", num |-> 0, str |-> x]

ColTypes == {"int", "float", "string"}

Cells(t) ==
    IF t = "string" THEN {NullCell} \cup {StrCell(x) : x \in Strs}
    ELSE {NullCell} \cup (IF is_floating_type(t) THEN {NanCell} ELSE {})
            \cup {NumCell(n) : n \in NumVals}

\* the value of a cell as a Datum of the column's type
CellDatum(c, t) == IF t = "string" THEN StringDatum(c.str) ELSE NumDatum(t, c.num)

\* the exact summary of the cells X of a column of type t; `known` says
\* whether the writer recorded the NaN status
Summarize(X, t, known) ==
    LET vals == {CellDatum(c, t) : c \in {y \in X : y.kind = "val"}}
        lo == CHOOSE d \in vals : \A e \in vals : DatumLe(d, e)
        hi == CHOOSE d \in vals : \A e \in vals : DatumLe(e, d)
    IN  FieldSummary(NullCell \in X,
                     IF known THEN Some(NanCell \in X) ELSE None,
                     IF vals = {} THEN None ELSE Some(to_bytes(lo)),
                     IF vals = {} THEN None ELSE Some(to_bytes(hi)))

\* ExactWith[t][c]: the exact summaries of the columns of type t that hold c
ExactWith ==
    [t \in ColTypes |->
        [c \in Cells(t) |->
            {Summarize(X, t, known) :
                X \in {Y \in SUBSET Cells(t) : c \in Y /\ Cardinality(Y) <= MaxRows},
                known \in BOOLEAN}]]

\* the type of the column at a position, the numeric column being of type t0
ColType(pos, t0) == IF pos = 0 THEN t0 ELSE "string"

RECURSIVE WellBound(_, _, _)
\* the binder's guarantee: positions in range, a reference typed as its
\* column, literals of the column's type, prefixes strings
WellBound(p, n, t0) ==
    CASE p[1] \in {"AlwaysTrue", "AlwaysFalse"} -> TRUE
      [] p[1] \in {"And", "Or"} -> WellBound(p[2], n, t0) /\ WellBound(p[3], n, t0)
      [] p[1] = "Not" -> WellBound(p[2], n, t0)
      [] p[1] = "Unary" -> p[3].pos < n /\ p[3].type = ColType(p[3].pos, t0)
      [] p[1] = "Binary" ->
            /\ p[3].pos < n
            /\ p[3].type = ColType(p[3].pos, t0)
            /\ p[4].type = p[3].type
            /\ p[2] \in PrefixOps => p[4].type = "string"
      [] p[1] = "Set" ->
            /\ p[3].pos < n
            /\ p[3].type = ColType(p[3].pos, t0)
            /\ \A d \in p[4] : d.type = p[3].type

IsPrefix(q, x) == Len(q) <= Len(x) /\ Take(x, Len(q)) = q

\* does the cell c of a column of type t satisfy the leaf p
CellSatisfies(p, c, t) ==
    LET v == CellDatum(c, t)
        isval == c.kind = "val"
    IN  CASE p[2] = "IsNull" -> c.kind = "null"
          [] p[2] = "NotNull" -> c.kind # "null"
          [] p[2] = "IsNan" -> c.kind = "nan"
          [] p[2] = "NotNan" -> c.kind # "nan"
          [] p[2] = "LessThan" -> isval /\ DatumLt(v, p[4])
          [] p[2] = "LessThanOrEq" -> isval /\ DatumLe(v, p[4])
          [] p[2] = "GreaterThan" -> isval /\ DatumGt(v, p[4])
          [] p[2] = "GreaterThanOrEq" -> isval /\ DatumGe(v, p[4])
          [] p[2] = "Eq" -> isval /\ v = p[4]
          [] p[2] = "NotEq" -> ~(isval /\ v = p[4])
          [] p[2] = "StartsWith" -> isval /\ IsPrefix(p[4].str, c.str)
          [] p[2] = "NotStartsWith" -> ~(isval /\ IsPrefix(p[4].str, c.str))
          [] p[2] = "In" -> isval /\ v \in p[4]
          [] p[2] = "NotIn" -> ~(isval /\ v \in p[4])

RECURSIVE RowSatisfies(_, _, _)
\* does the row (one cell per column) satisfy the NOT-free predicate p
RowSatisfies(p, row, t0) ==
    CASE p[1] = "AlwaysTrue" -> TRUE
      [] p[1] = "AlwaysFalse" -> FALSE
      [] p[1] = "And" -> RowSatisfies(p[2], row, t0) /\ RowSatisfies(p[3], row, t0)
      [] p[1] = "Or" -> RowSatisfies(p[2], row, t0) \/ RowSatisfies(p[3], row, t0)
      [] OTHER -> CellSatisfies(p, row[p[3].pos + 1], ColType(p[3].pos, t0))

\* the cells that a column of type t with the exact summary `field` can hold
HeldBy(field, t) == {c \in Cells(t) : field \in ExactWith[t][c]}

\* the rows (one cell per column) of the sets of rows that partitions exactly
\* summarizes
SummarizedRows(partitions, t0) ==
    IF Len(partitions) = 1
    THEN {<<c>> : c \in HeldBy(partitions[1], t0)}
    ELSE {<<c, x>> : c \in HeldBy(partitions[1], t0),
                     x \in HeldBy(partitions[2], "string")}

\* partitions exactly summarizes some set of rows, one of which satisfies p
SomeRowSatisfies(p, partitions) ==
    \E t0 \in {"int", "float"} :
        /\ WellBound(p, Len(partitions), t0)
        /\ \E row \in SummarizedRows(partitions, t0) : RowSatisfies(p, row, t0)

(***************************************************************************)
(* C1  No false exclusion: when the statistics exactly summarize a set of  *)
(* rows and a row of it satisfies the NOT-free, well-bound predicate, eval *)
(* answers Ok(true).                                                       *)
(***************************************************************************)
C1_NoFalseExclusion ==
    (/\ Evaluated
     /\ NonEmptyStats
     /\ ~HasNot(Stored)
     /\ SomeRowSatisfies(Stored, unwrap(Parts)))
        => Res = Ok(TRUE)

\* a conjunction over two columns is satisfied by a row and answered might-match
C1_Witness ==
    /\ Evaluated
    /\ NonEmptyStats
    /\ Stored[1] = "And"
    /\ IsLeaf(Stored[2]) /\ IsLeaf(Stored[3])
    /\ RefOf(Stored[2]).pos # RefOf(Stored[3]).pos
    /\ SomeRowSatisfies(Stored, unwrap(Parts))
    /\ Res = Ok(TRUE)

(***************************************************************************)
(* C2  With absent or empty partition statistics eval answers Ok(true)     *)
(* for every predicate, and no handler is invoked.                         *)
(***************************************************************************)
C2_NoStatsMightMatch ==
    (Evaluated /\ ~NonEmptyStats) => (Res = Ok(TRUE) /\ calls = <<>>)

\* a negation evaluated on an empty statistics list
C2_Witness ==
    /\ Evaluated
    /\ Parts = Some(<<>>)
    /\ Stored[1] = "Not"
    /\ Res = Ok(TRUE)

(***************************************************************************)
(* C3 as stated: eval(AlwaysTrue, S) = true and eval(AlwaysFalse, S) =     *)
(* false for every S, absent, empty or non-empty.                          *)
(***************************************************************************)
C3_Original ==
    Evaluated =>
        /\ Stored = AlwaysTrue => Res = Ok(TRUE)
        /\ Stored = AlwaysFalse => Res = Ok(FALSE)

(***************************************************************************)
(* C3  eval(AlwaysTrue, S) = true for every S; eval(AlwaysFalse, S) =      *)
(* false for every non-empty S and true when S is absent or empty.         *)
(***************************************************************************)
C3_Constants ==
    Evaluated =>
        /\ Stored = AlwaysTrue => Res = Ok(TRUE)
        /\ Stored = AlwaysFalse => Res = Ok(NonEmptyStats = FALSE)

\* AlwaysFalse evaluated on statistics that are there
C3_Witness ==
    /\ Evaluated
    /\ Stored = AlwaysFalse
    /\ NonEmptyStats
    /\ Res = Ok(FALSE)

(***************************************************************************)
(* C4 as stated: built without rewrite, eval(Not(P), S) is an error for    *)
(* every P and every S.                                                    *)
(***************************************************************************)
C4_Original ==
    (Evaluated /\ ~builder.rewrite_not /\ Filter[1] = "Not") => Res.kind = "Err"

(***************************************************************************)
(* C4  Built without rewrite, eval(Not(P), S) on non-empty S never yields  *)
(* a Boolean: it is an error, the unsupported-negation error when P        *)
(* evaluates to a Boolean, and it aborts exactly when evaluating P aborts; *)
(* on absent or empty S it is Ok(true).                                    *)
(***************************************************************************)
C4_NotRejected ==
    (Evaluated /\ ~builder.rewrite_not /\ Filter[1] = "Not") =>
        IF NonEmptyStats
        THEN LET inner == visit(unwrap(Parts), Filter[2]).res
             IN  /\ Res.kind # "Ok"
                 /\ Res.kind = "panic" <=> inner.kind = "panic"
                 /\ inner.kind = "Ok" => Res = Err(NotUnsupported)
        ELSE Res = Ok(TRUE)

\* the negation of a leaf that evaluates to a Boolean is rejected
C4_Witness ==
    /\ Evaluated
    /\ ~builder.rewrite_not
    /\ Filter[1] = "Not"
    /\ IsLeaf(Filter[2])
    /\ NonEmptyStats
    /\ Res = Err(NotUnsupported)

(***************************************************************************)
(* C5  Built with rewrite, the stored predicate has no Not node, eval      *)
(* never reports the unsupported negation, and eval(Not(P), S) is eval of  *)
(* the negation pushed down; Not(col < d) evaluates as col >= d and        *)
(* Not(col > d) as col <= d.                                               *)
(***************************************************************************)
C5_RewriteEliminatesNot ==
    (Evaluated /\ builder.rewrite_not) =>
        /\ ~HasNot(Stored)
        /\ Res # Err(NotUnsupported)
        /\ \A i \in 1..Len(calls) : calls[i] # "not"
        /\ Filter[1] = "Not" =>
                Res = eval([partition_filter |-> negate(Filter[2])], Parts).res
        /\ (Filter[1] = "Not" /\ Filter[2][1] = "Binary" /\ Filter[2][2] = "LessThan") =>
                Res = eval([partition_filter |->
                              Binary("GreaterThanOrEq", Filter[2][3], Filter[2][4])], Parts).res
        /\ (Filter[1] = "Not" /\ Filter[2][1] = "Binary" /\ Filter[2][2] = "GreaterThan") =>
                Res = eval([partition_filter |->
                              Binary("LessThanOrEq", Filter[2][3], Filter[2][4])], Parts).res

\* Not(col < d) built with rewrite and evaluated to might-match
C5_Witness ==
    /\ Evaluated
    /\ builder.rewrite_not
    /\ Filter[1] = "Not"
    /\ Filter[2][1] = "Binary"
    /\ Filter[2][2] = "LessThan"
    /\ NonEmptyStats
    /\ Res = Ok(TRUE)

(***************************************************************************)
(* C6  Built with rewrite, eval(Not(Not(P)), S) = eval(P, S) for every     *)
(* NOT-free P and every S.                                                 *)
(***************************************************************************)
C6_DoubleNegation ==
    (/\ Evaluated
     /\ builder.rewrite_not
     /\ Filter[1] = "Not"
     /\ Filter[2][1] = "Not"
     /\ ~HasNot(Filter[2][2]))
        => Res = eval([partition_filter |-> Filter[2][2]], Parts).res

\* a doubly negated tree evaluated to cannot-match
C6_Witness ==
    /\ Evaluated
    /\ builder.rewrite_not
    /\ Filter[1] = "Not"
    /\ Filter[2][1] = "Not"
    /\ Filter[2][2][1] \in {"And", "Or"}
    /\ NonEmptyStats
    /\ Res = Ok(FALSE)

(***************************************************************************)
(* C7  NotEq and NotIn are might-match on every non-empty statistics       *)
(* array, whatever the bounds, flags, literal or set.                      *)
(***************************************************************************)
C7_NotEqNotInMightMatch ==
    (/\ Evaluated
     /\ NonEmptyStats
     /\ Stored[1] \in {"Binary", "Set"}
     /\ Stored[2] \in {"NotEq", "NotIn"})
        => Res = ROWS_MIGHT_MATCH

\* NotEq on a column without nulls whose bounds are both the literal
C7_Witness ==
    /\ Evaluated
    /\ NonEmptyStats
    /\ Stored[1] = "Binary"
    /\ Stored[2] = "NotEq"
    /\ InRange(Stored)
    /\ ~FieldOf(Stored).contains_null
    /\ FieldOf(Stored).lower_bound = Some(to_bytes(Stored[4]))
    /\ FieldOf(Stored).upper_bound = Some(to_bytes(Stored[4]))
    /\ Res = ROWS_MIGHT_MATCH

\* the statistic the operator compares against is not recorded: its bound is
\* absent, or the NaN status of a column that can hold NaN is unknown
NeededMissing(op, field, type) ==
    CASE op \in {"LessThan", "LessThanOrEq", "In"} -> is_none(field.lower_bound)
      [] op \in {"GreaterThan", "GreaterThanOrEq"} -> is_none(field.upper_bound)
      [] op \in {"Eq", "StartsWith", "NotStartsWith"} ->
            is_none(field.lower_bound) \/ is_none(field.upper_bound)
      [] op = "NotNan" -> is_none(field.contains_nan)
      [] op = "IsNan" -> is_none(field.contains_nan) /\ is_floating_type(type)
      [] OTHER -> FALSE

(***************************************************************************)
(* C8 as stated: a leaf whose needed statistic is not recorded (the bound  *)
(* absent, the NaN status unknown) is might-match, never cannot-match.     *)
(***************************************************************************)
C8_Original ==
    (/\ Evaluated
     /\ NonEmptyStats
     /\ IsLeaf(Stored)
     /\ InRange(Stored)
     /\ NeededMissing(Stored[2], FieldOf(Stored), RefOf(Stored).type))
        => Res = ROWS_MIGHT_MATCH

(***************************************************************************)
(* C8  Under missing information the verdict is the operator's: with an    *)
(* unknown NaN status NotNaN is might-match, and so are IsNaN and NotNull  *)
(* on a floating-point column; NotStartsWith is might-match when a bound   *)
(* is absent; but LT, LTE and In with an absent lower bound, GT and GTE    *)
(* with an absent upper bound, Eq and StartsWith with either bound absent  *)
(* are cannot-match.                                                       *)
(***************************************************************************)
C8_MissingInformation ==
    (Evaluated /\ NonEmptyStats /\ IsLeaf(Stored) /\ InRange(Stored)) =>
        LET op == Stored[2]
            field == FieldOf(Stored)
            no_lower == is_none(field.lower_bound)
            no_upper == is_none(field.upper_bound)
            no_nan == is_none(field.contains_nan)
        IN  /\ (op \in {"LessThan", "LessThanOrEq", "In"} /\ no_lower)
                    => Res = ROWS_CANNOT_MATCH
            /\ (op \in {"GreaterThan", "GreaterThanOrEq"} /\ no_upper)
                    => Res = ROWS_CANNOT_MATCH
            /\ (op \in {"Eq", "StartsWith"} /\ (no_lower \/ no_upper))
                    => Res = ROWS_CANNOT_MATCH
            /\ (op = "NotStartsWith" /\ (no_lower \/ no_upper))
                    => Res = ROWS_MIGHT_MATCH
            /\ (op = "NotNan" /\ no_nan) => Res = ROWS_MIGHT_MATCH
            /\ (op \in {"IsNan", "NotNull"} /\ no_nan /\ is_floating_type(RefOf(Stored).type))
                    => Res = ROWS_MIGHT_MATCH

\* col < d on a summary without a lower bound is cannot-match
C8_Witness ==
    /\ Evaluated
    /\ NonEmptyStats
    /\ Stored[1] = "Binary"
    /\ Stored[2] = "LessThan"
    /\ InRange(Stored)
    /\ is_none(FieldOf(Stored).lower_bound)
    /\ Res = ROWS_CANNOT_MATCH

\* a prefix leaf whose literal is no string, on a column the manifest has
NonStringPrefix ==
    /\ Evaluated
    /\ NonEmptyStats
    /\ Stored[1] = "Binary"
    /\ Stored[2] \in PrefixOps
    /\ Stored[4].type # "string"
    /\ InRange(Stored)

(***************************************************************************)
(* C9 as stated: StartsWith / NotStartsWith with a literal that is no      *)
(* string is an Unexpected error for every field summary of the column.    *)
(***************************************************************************)
C9_Original == NonStringPrefix => Res.kind = "Err"

(***************************************************************************)
(* C9  StartsWith / NotStartsWith with a literal that is no string is an   *)
(* Unexpected error exactly when the summary passes the handler's early    *)
(* returns: both bounds present, and for NotStartsWith contains_null       *)
(* false.  Otherwise the early verdict stands: StartsWith cannot-match,    *)
(* NotStartsWith might-match.                                              *)
(***************************************************************************)
C9_NonStringPrefix ==
    NonStringPrefix =>
        LET field == FieldOf(Stored)
            no_bound == is_none(field.lower_bound) \/ is_none(field.upper_bound)
        IN  IF Stored[2] = "StartsWith"
            THEN Res = (IF no_bound THEN ROWS_CANNOT_MATCH ELSE Err(StartsWithNonString))
            ELSE Res = (IF field.contains_null \/ no_bound THEN ROWS_MIGHT_MATCH
                        ELSE Err(NotStartsWithNonString))

\* NotStartsWith with an int literal on a summary with bounds and no nulls
C9_Witness ==
    /\ NonStringPrefix
    /\ Stored[2] = "NotStartsWith"
    /\ Res = Err(NotStartsWithNonString)

\* a leaf whose column position no field summary has
OutOfRangeLeaf ==
    /\ Evaluated
    /\ NonEmptyStats
    /\ IsLeaf(Stored)
    /\ ~InRange(Stored)

(***************************************************************************)
(* C10 as stated: a leaf of any operator whose position is out of range    *)
(* ends in a panic.                                                        *)
(***************************************************************************)
C10_Original == OutOfRangeLeaf => Res = Panic

(***************************************************************************)
(* C10  A leaf whose position is out of range ends in a panic, never       *)
(* Ok or Err, for every operator but NotEq and NotIn; these two never look *)
(* the column up and answer Ok(true).                                      *)
(***************************************************************************)
C10_OutOfRange ==
    OutOfRangeLeaf =>
        IF Stored[2] \in {"NotEq", "NotIn"} THEN Res = ROWS_MIGHT_MATCH ELSE Res = Panic

\* IsNull on the string column of a manifest that has one column only
C10_Witness ==
    /\ OutOfRangeLeaf
    /\ Stored = Unary("IsNull", StrRef)
    /\ Len(unwrap(Parts)) = 1
    /\ Res = Panic

\* a leaf on a column the manifest has was evaluated
InRangeLeaf ==
    /\ Evaluated
    /\ NonEmptyStats
    /\ IsLeaf(Stored)
    /\ InRange(Stored)

\* the verdict: cannot-match when prune holds, might-match otherwise
Verdict(prune) == IF prune THEN ROWS_CANNOT_MATCH ELSE ROWS_MIGHT_MATCH

(***************************************************************************)
(* C13  col < d is cannot-match iff the lower bound is absent or           *)
(* d <= lower_bound; col <= d is cannot-match iff the lower bound is       *)
(* absent or d < lower_bound; otherwise might-match.  Nothing else of the  *)
(* summary takes part.                                                     *)
(***************************************************************************)
C13_LowerBoundRule ==
    (InRangeLeaf /\ Stored[2] \in {"LessThan", "LessThanOrEq"}) =>
        LET lb == FieldOf(Stored).lower_bound
            d == Stored[4]
            lower == bytes_to_datum(unwrap(lb), RefOf(Stored).type)
        IN  Res = Verdict(\/ is_none(lb)
                          \/ IF Stored[2] = "LessThan" THEN DatumLe(d, lower)
                             ELSE DatumLt(d, lower))

\* col <= d with d the lower bound, on a summary with nulls and no upper bound
C13_Witness ==
    /\ InRangeLeaf
    /\ Stored[2] = "LessThanOrEq"
    /\ FieldOf(Stored).lower_bound = Some(to_bytes(Stored[4]))
    /\ is_none(FieldOf(Stored).upper_bound)
    /\ FieldOf(Stored).contains_null
    /\ Res = ROWS_MIGHT_MATCH

(***************************************************************************)
(* C14  col > d is cannot-match iff the upper bound is absent or           *)
(* d >= upper_bound; col >= d is cannot-match iff the upper bound is       *)
(* absent or d > upper_bound; otherwise might-match.  Nothing else of the  *)
(* summary takes part.                                                     *)
(***************************************************************************)
C14_UpperBoundRule ==
    (InRangeLeaf /\ Stored[2] \in {"GreaterThan", "GreaterThanOrEq"}) =>
        LET ub == FieldOf(Stored).upper_bound
            d == Stored[4]
            upper == bytes_to_datum(unwrap(ub), RefOf(Stored).type)
        IN  Res = Verdict(\/ is_none(ub)
                          \/ IF Stored[2] = "GreaterThan" THEN DatumGe(d, upper)
                             ELSE DatumGt(d, upper))

\* col >= d with d the upper bound, on a summary without a lower bound
C14_Witness ==
    /\ InRangeLeaf
    /\ Stored[2] = "GreaterThanOrEq"
    /\ FieldOf(Stored).upper_bound = Some(to_bytes(Stored[4]))
    /\ is_none(FieldOf(Stored).lower_bound)
    /\ Res = ROWS_MIGHT_MATCH

(***************************************************************************)
(* C15  col = d is cannot-match iff a bound is absent, or d < lower_bound, *)
(* or d > upper_bound; otherwise might-match.                              *)
(***************************************************************************)
C15_EqRule ==
    (InRangeLeaf /\ Stored[2] = "Eq") =>
        LET lb == FieldOf(Stored).lower_bound
            ub == FieldOf(Stored).upper_bound
            d == Stored[4]
            type == RefOf(Stored).type
        IN  Res = Verdict(\/ is_none(lb)
                          \/ is_none(ub)
                          \/ DatumLt(d, bytes_to_datum(unwrap(lb), type))
                          \/ DatumGt(d, bytes_to_datum(unwrap(ub), type)))

\* col = d with d the upper bound and above the lower bound
C15_Witness ==
    /\ InRangeLeaf
    /\ Stored[2] = "Eq"
    /\ FieldOf(Stored).upper_bound = Some(to_bytes(Stored[4]))
    /\ is_some(FieldOf(Stored).lower_bound)
    /\ FieldOf(Stored).lower_bound # FieldOf(Stored).upper_bound
    /\ Res = ROWS_MIGHT_MATCH

\* the spec's "definitely all-null"
DefinitelyAllNull(field, type) ==
    /\ field.contains_null
    /\ is_none(field.lower_bound)
    /\ is_floating_type(type) => field.contains_nan = Some(FALSE)

(***************************************************************************)
(* C18  NotNull is cannot-match iff the field is definitely all-null:      *)
(* contains_null, no lower bound and, on a floating-point column only,     *)
(* contains_nan known false; otherwise might-match.                        *)
(***************************************************************************)
C18_NotNullRule ==
    (InRangeLeaf /\ Stored[2] = "NotNull") =>
        Res = Verdict(DefinitelyAllNull(FieldOf(Stored), RefOf(Stored).type))

\* an all-null-shaped floating-point column of unknown NaN status
C18_Witness ==
    /\ InRangeLeaf
    /\ Stored[2] = "NotNull"
    /\ is_floating_type(RefOf(Stored).type)
    /\ FieldOf(Stored).contains_null
    /\ is_none(FieldOf(Stored).lower_bound)
    /\ is_none(FieldOf(Stored).contains_nan)
    /\ Res = ROWS_MIGHT_MATCH

(***************************************************************************)
(* C19  IsNull is might-match iff contains_null is true, cannot-match      *)
(* otherwise, whatever the bounds and contains_nan.                        *)
(***************************************************************************)
C19_IsNullRule ==
    (InRangeLeaf /\ Stored[2] = "IsNull") =>
        Res = Verdict(~FieldOf(Stored).contains_null)

\* IsNull on a column with nulls and with both bounds
C19_Witness ==
    /\ InRangeLeaf
    /\ Stored[2] = "IsNull"
    /\ FieldOf(Stored).contains_null
    /\ is_some(FieldOf(Stored).lower_bound)
    /\ is_some(FieldOf(Stored).upper_bound)
    /\ Res = ROWS_MIGHT_MATCH

(***************************************************************************)
(* C20  IsNaN is cannot-match iff contains_nan is known false or the field *)
(* is definitely all-null; otherwise might-match.  A floating-point column *)
(* of unknown or known-true NaN status is might-match.                     *)
(***************************************************************************)
C20_IsNanRule ==
    (InRangeLeaf /\ Stored[2] = "IsNan") =>
        LET field == FieldOf(Stored)
            type == RefOf(Stored).type
        IN  /\ Res = Verdict(\/ field.contains_nan = Some(FALSE)
                             \/ DefinitelyAllNull(field, type))
            /\ (is_floating_type(type) /\ field.contains_nan # Some(FALSE))
                    => Res = ROWS_MIGHT_MATCH

\* a floating-point column of unknown NaN status, with nulls and no bounds
C20_Witness ==
    /\ InRangeLeaf
    /\ Stored[2] = "IsNan"
    /\ is_floating_type(RefOf(Stored).type)
    /\ is_none(FieldOf(Stored).contains_nan)
    /\ FieldOf(Stored).contains_null
    /\ is_none(FieldOf(Stored).lower_bound)
    /\ is_none(FieldOf(Stored).upper_bound)
    /\ Res = ROWS_MIGHT_MATCH

\* col in S was evaluated on a column the manifest has
InLeaf == InRangeLeaf /\ Stored[2] = "In"

(***************************************************************************)
(* C16  col in S with at most 200 members is cannot-match iff the lower    *)
(* bound is absent, or every member is below lower_bound, or the upper     *)
(* bound is present and every member is above it; otherwise might-match.   *)
(* The empty set is cannot-match.                                          *)
(***************************************************************************)
C16_InRule ==
    (InLeaf /\ Cardinality(Stored[4]) <= IN_PREDICATE_LIMIT) =>
        LET lb == FieldOf(Stored).lower_bound
            ub == FieldOf(Stored).upper_bound
            type == RefOf(Stored).type
        IN  /\ Res = Verdict(
                    \/ is_none(lb)
                    \/ \A d \in Stored[4] : DatumLt(d, bytes_to_datum(unwrap(lb), type))
                    \/ /\ is_some(ub)
                       /\ \A d \in Stored[4] : DatumGt(d, bytes_to_datum(unwrap(ub), type)))
            /\ Stored[4] = {} => Res = ROWS_CANNOT_MATCH

\* an absent upper bound alone does not prune: a member above the lower bound
C16_Witness ==
    /\ InLeaf
    /\ Cardinality(Stored[4]) = 1
    /\ is_some(FieldOf(Stored).lower_bound)
    /\ is_none(FieldOf(Stored).upper_bound)
    /\ \E d \in Stored[4] : to_bytes(d) # unwrap(FieldOf(Stored).lower_bound)
    /\ Res = ROWS_MIGHT_MATCH

\* every member of the set is outside [lower_bound, upper_bound]
AllOutside(literals, field, type) ==
    \/ \A d \in literals : DatumLt(d, bytes_to_datum(unwrap(field.lower_bound), type))
    \/ /\ is_some(field.upper_bound)
       /\ \A d \in literals : DatumGt(d, bytes_to_datum(unwrap(field.upper_bound), type))

(***************************************************************************)
(* C17  The limit of In: with the lower bound present a set of more than   *)
(* 200 members is might-match even when every member is outside the        *)
(* bounds; a set of exactly 200 members is still pruned by the bounds; an  *)
(* absent lower bound is cannot-match whatever the size.                   *)
(***************************************************************************)
C17_InLimit ==
    InLeaf =>
        LET field == FieldOf(Stored)
            n == Cardinality(Stored[4])
        IN  /\ is_none(field.lower_bound) => Res = ROWS_CANNOT_MATCH
            /\ (is_some(field.lower_bound) /\ n > IN_PREDICATE_LIMIT)
                    => Res = ROWS_MIGHT_MATCH
            /\ (is_some(field.lower_bound) /\ n = IN_PREDICATE_LIMIT)
                    => Res = Verdict(AllOutside(Stored[4], field, RefOf(Stored).type))

\* 201 members, all above the upper bound, and yet might-match
C17_Witness ==
    /\ InLeaf
    /\ Cardinality(Stored[4]) = IN_PREDICATE_LIMIT + 1
    /\ is_some(FieldOf(Stored).lower_bound)
    /\ is_some(FieldOf(Stored).upper_bound)
    /\ AllOutside(Stored[4], FieldOf(Stored), RefOf(Stored).type)
    /\ Res = ROWS_MIGHT_MATCH

\* what eval(&manifests[m]) returns when called alone on a freshly built evaluator
AloneRes(m) == eval(build(builder), CallerManifests[m].partitions).res

(***************************************************************************)
(* C11  Calls of eval on one evaluator, interleaved across threads on      *)
(* different manifests, each return what the same call returns alone on a  *)
(* freshly built evaluator; no call writes the stored predicate or the     *)
(* statistics of a manifest.                                               *)
(***************************************************************************)
C11_SharedEvaluator ==
    /\ pc = "built" => evaluator = Some(build(builder))
    /\ manifests = CallerManifests
    /\ \A t \in Threads :
            is_some(done[t]) => unwrap(done[t]).res = AloneRes(unwrap(done[t]).m)

\* two calls that overlapped on different manifests and returned different verdicts
C11_Witness ==
    \E t \in Threads, u \in Threads :
        /\ t # u
        /\ is_some(done[t])
        /\ is_some(done[u])
        /\ unwrap(done[t]).overlapped
        /\ unwrap(done[t]).m # unwrap(done[u]).m
        /\ unwrap(done[t]).res = ROWS_MIGHT_MATCH
        /\ unwrap(done[u]).res = ROWS_CANNOT_MATCH

(***************************************************************************)
(* C12  After a call of eval that returned an error the stored predicate   *)
(* and the statistics are unchanged, and every call made later on the      *)
(* same evaluator returns what it returns alone.                           *)
(***************************************************************************)
C12_ErrorLeavesNoTrace ==
    /\ failed => (evaluator = Some(build(builder)) /\ manifests = CallerManifests)
    /\ \A t \in Threads :
            (is_some(done[t]) /\ unwrap(done[t]).after_error)
                => unwrap(done[t]).res = AloneRes(unwrap(done[t]).m)

\* a prefix type mismatch on one manifest, then a verdict on another
C12_Witness ==
    \E t \in Threads :
        /\ failed
        /\ Stored[1] = "Binary"
        /\ is_some(done[t])
        /\ unwrap(done[t]).after_error
        /\ unwrap(done[t]).res = ROWS_CANNOT_MATCH

(***************************************************************************)
(* C21  NotNaN is cannot-match iff contains_nan is known true,             *)
(* contains_null is false and the lower bound is absent; otherwise         *)
(* might-match.  The upper bound takes no part.                            *)
(***************************************************************************)
C21_NotNanRule ==
    (InRangeLeaf /\ Stored[2] = "NotNan") =>
        LET field == FieldOf(Stored)
        IN  Res = Verdict(/\ field.contains_nan = Some(TRUE)
                          /\ ~field.contains_null
                          /\ is_none(field.lower_bound))

\* every value NaN, and an upper bound recorded all the same
C21_Witness ==
    /\ InRangeLeaf
    /\ Stored[2] = "NotNan"
    /\ FieldOf(Stored).contains_nan = Some(TRUE)
    /\ ~FieldOf(Stored).contains_null
    /\ is_none(FieldOf(Stored).lower_bound)
    /\ is_some(FieldOf(Stored).upper_bound)
    /\ Res = ROWS_CANNOT_MATCH

\* a prefix operator with a string prefix on a column the manifest has
StringPrefixLeaf(op) ==
    /\ InRangeLeaf
    /\ Stored[2] = op
    /\ Stored[4].type = "string"

\* the first bytes of a bound, as many as the prefix has or the bound if shorter
Truncated(bound, prefix) == Take(bound, Min(Len(prefix), Len(bound)))

C23_NotStartsWithRule ==
    StringPrefixLeaf("NotStartsWith") =>
        LET field == FieldOf(Stored)
            p == Stored[4].str
        IN  Res = Verdict(/\ ~field.contains_null
                          /\ is_some(field.lower_bound)
                          /\ is_some(field.upper_bound)
                          /\ Len(p) <= Len(unwrap(field.lower_bound))
                          /\ Len(p) <= Len(unwrap(field.upper_bound))
                          /\ Take(unwrap(field.lower_bound), Len(p)) = p
                          /\ Take(unwrap(field.upper_bound), Len(p)) = p)

\* two different bounds that both start with the prefix
C23_Witness ==
    /\ StringPrefixLeaf("NotStartsWith")
    /\ Len(Stored[4].str) > 0
    /\ FieldOf(Stored).lower_bound # FieldOf(Stored).upper_bound
    /\ Res = ROWS_CANNOT_MATCH

\* some leaf of p refers to a column the manifest does not have
RECURSIVE SomeLeafOutOfRange(_)
SomeLeafOutOfRange(p) ==
    CASE p[1] \in {"And", "Or"} -> SomeLeafOutOfRange(p[2]) \/ SomeLeafOutOfRange(p[3])
      [] p[1] = "Not" -> SomeLeafOutOfRange(p[2])
      [] IsLeaf(p) -> ~InRange(p)
      [] OTHER -> FALSE

\* C24 as stated: over non-empty statistics And/Or combine two successful
\* operands, an error in either operand makes eval an error, and without
\* rewrite a Not node anywhere makes eval an error
C24_Original ==
    (Evaluated /\ NonEmptyStats) =>
        /\ Stored[1] \in {"And", "Or"} =>
                LET a == visit(unwrap(Parts), Stored[2]).res
                    b == visit(unwrap(Parts), Stored[3]).res
                IN  /\ (a.kind = "Ok" /\ b.kind = "Ok") =>
                            Res = Ok(IF Stored[1] = "And" THEN a.val /\ b.val
                                     ELSE a.val \/ b.val)
                    /\ (a.kind = "Err" \/ b.kind = "Err") => Res.kind = "Err"
        /\ (~builder.rewrite_not /\ HasNot(Filter)) => Res.kind = "Err"

(***************************************************************************)
(* C24  Over non-empty statistics And/Or are strict.  When the left        *)
(* operand fails (error or panic) eval fails in the same way; when the     *)
(* left succeeds the right operand is always evaluated, whatever the left  *)
(* value, and its failure is the failure of eval; when both succeed the    *)
(* handlers of both have run before the combiner and eval is left && right *)
(* or left || right.  Without rewrite a Not node anywhere in the tree      *)
(* makes eval fail: with an error when every referenced column exists,     *)
(* never with a Boolean.                                                   *)
(***************************************************************************)
C24_StrictCombinators ==
    (Evaluated /\ NonEmptyStats) =>
        /\ Stored[1] \in {"And", "Or"} =>
                LET a == visit(unwrap(Parts), Stored[2])
                    b == visit(unwrap(Parts), Stored[3])
                IN  /\ a.res.kind # "Ok" => Res = a.res
                    /\ (a.res.kind = "Ok" /\ b.res.kind # "Ok") =>
                            /\ Res = b.res
                            /\ calls = a.calls \o b.calls
                    /\ (a.res.kind = "Ok" /\ b.res.kind = "Ok") =>
                            /\ Res = Ok(IF Stored[1] = "And"
                                        THEN a.res.val /\ b.res.val
                                        ELSE a.res.val \/ b.res.val)
                            /\ calls = Append(a.calls \o b.calls,
                                              IF Stored[1] = "And" THEN "and" ELSE "or")
        /\ (~builder.rewrite_not /\ HasNot(Filter)) =>
                /\ Res.kind # "Ok"
                /\ ~SomeLeafOutOfRange(Filter) => Res.kind = "Err"
                /\ Res.kind = "panic" => SomeLeafOutOfRange(Filter)

\* a false left operand does not spare the negation on the right
C24_Witness ==
    /\ Evaluated
    /\ NonEmptyStats
    /\ ~builder.rewrite_not
    /\ Stored[1] = "And"
    /\ Stored[2] = AlwaysFalse
    /\ Stored[3][1] = "Not"
    /\ calls = <<"always_false", "always_true", "not">>
    /\ Res = Err(NotUnsupported)

\* both bounds of every field are recorded
BothBounds(partitions) ==
    \A i \in 1..Len(partitions) :
        is_some(partitions[i].lower_bound) /\ is_some(partitions[i].upper_bound)

\* the bounds a column can record: column 0 is numeric, column 1 a string
BoundsOfColumn(i) == IF i = 1 THEN {<<n>> : n \in NumVals} ELSE Strs

\* bound x is not above bound y in the order of column i
BoundLe(i, x, y) == IF i = 1 THEN x[1] <= y[1] ELSE ~BytesGt(x, y)

\* the summaries with the flags of field and bounds at least as wide
WiderFields(field, i) ==
    {FieldSummary(field.contains_null, field.contains_nan, Some(lb), Some(ub)) :
        lb \in {x \in BoundsOfColumn(i) : BoundLe(i, x, unwrap(field.lower_bound))},
        ub \in {x \in BoundsOfColumn(i) : BoundLe(i, unwrap(field.upper_bound), x)}}

\* the statistics of the same length that widen partitions field by field
Widened(partitions) ==
    IF Len(partitions) = 1
    THEN {<<a>> : a \in WiderFields(partitions[1], 1)}
    ELSE {<<a, b>> : a \in WiderFields(partitions[1], 1),
                     b \in WiderFields(partitions[2], 2)}

AsRange(reference, datum) ==
    And(Binary("LessThanOrEq", reference, datum),
        Binary("GreaterThanOrEq", reference, datum))

(***************************************************************************)
(* C26  For every field summary, bounds present or absent, and every       *)
(* literal d, Eq(col, d) gives the verdict of And(LTE(col, d),             *)
(* GTE(col, d)); and when Eq(col, d) is might-match for a member d of a    *)
(* set S, In(col, S) is might-match too.                                   *)
(***************************************************************************)
C26_EqRangeIn ==
    InRangeLeaf =>
        /\ Stored[2] = "Eq" =>
                /\ Res = visit(unwrap(Parts), AsRange(Stored[3], Stored[4])).res
                /\ Res = ROWS_MIGHT_MATCH =>
                        \A literals \in {L \in SetLits(Stored[3]) : Stored[4] \in L} :
                            visit(unwrap(Parts), SetPred("In", Stored[3], literals)).res
                                = ROWS_MIGHT_MATCH
        /\ Stored[2] = "In" =>
                \A d \in Stored[4] :
                    visit(unwrap(Parts), Binary("Eq", Stored[3], d)).res = ROWS_MIGHT_MATCH
                        => Res = ROWS_MIGHT_MATCH

\* an equality inside two different bounds, whose literal has a set around it
\* with a member outside the bounds
C26_Witness ==
    /\ InRangeLeaf
    /\ Stored[2] = "Eq"
    /\ Res = ROWS_MIGHT_MATCH
    /\ FieldOf(Stored).lower_bound # FieldOf(Stored).upper_bound
    /\ \E literals \in SetLits(Stored[3]) :
            /\ Stored[4] \in literals
            /\ \E d \in literals :
                    visit(unwrap(Parts), Binary("Eq", Stored[3], d)).res = ROWS_CANNOT_MATCH

====
